---- MODULE Spec2Model ----
(***************************************************************************)
(* Model of film_grain.py: the two invocation nodes FilmGrainInvocation    *)
(* and MonochromeFilmGrainInvocation.  An invocation reads an image from   *)
(* the host, strips alpha, builds two seeded, blurred noise layers,        *)
(* overlays them and saves the result.  The numpy and PIL calls are        *)
(* modelled by what the libraries compute on 8-bit data.                   *)
(***************************************************************************)
EXTENDS Integers, Sequences, FiniteSets

(* ------------------------------ bounds -------------------------------- *)
MaxWidth == 2
MaxHeight == 2
MaxSeed == 1

(* ------------------------- program constants -------------------------- *)
\* seed_1 / seed_2 are Optional[int]: None is the absent seed.
None == -1
\* amount / 800.0
AmountScale == 800
\* largest value of a uint8 band
MaxByte == 255

Seeds == 0..MaxSeed
OptSeeds == Seeds \cup {None}

Procs == {1, 2}
Layers == {1, 2}
Nodes == {"film_grain", "monochrome_film_grain"}

\* Outcomes of the out-of-range float64 -> uint8 cast, fixed by the build:
\* "wrap" (conversion through a wider integer, low byte kept) or
\* "saturate" (clamping conversion instruction).
CastModes == {"wrap", "saturate"}

(* ------------------------------ images -------------------------------- *)
\* A PIL image: mode, size (w, h) and row-major pixels, each a tuple of bands.
Bands(mode) ==
  CASE mode = "L" -> 1
    [] mode = "RGB" -> 3
    [] mode = "YCbCr" -> 3
    [] mode = "RGBA" -> 4
    [] OTHER -> 0

NoImage == [mode |-> "none", w |-> 0, h |-> 0, px |-> <<>>]

Min(a, b) == IF a < b THEN a ELSE b
Clamp(i, lo, hi) == IF i < lo THEN lo ELSE IF i > hi THEN hi ELSE i

\* Pixel (x, y), 0-based, of an image.
PixelAt(img, x, y) == img.px[y * img.w + x + 1]

\* image.convert(mode) for the conversions the nodes perform.
Convert(img, mode) ==
  IF img.mode = mode THEN img
  ELSE [img EXCEPT
          !.mode = mode,
          !.px = [i \in 1..Len(img.px) |->
                    CASE img.mode = "RGBA" /\ mode = "RGB" -> SubSeq(img.px[i], 1, 3)
                      [] img.mode = "RGB" /\ mode = "RGBA" -> Append(img.px[i], MaxByte)
                      [] img.mode = "L" /\ mode = "RGB" ->
                           <<img.px[i][1], img.px[i][1], img.px[i][1]>>
                      [] OTHER -> img.px[i]]]

(* ------------------------------- noise -------------------------------- *)
\* Standard-normal samples in tenths; the generator's stream is a fixed
\* function of the seed and the index of the draw.
SampleTable == <<0, 3, -4, 11, -12, 25, -30>>
Sample(seed, k) == SampleTable[((seed * 3 + k * (2 * seed + 1)) % Len(SampleTable)) + 1]

\* Truncation toward zero of num / den, den > 0.
Trunc(num, den) == IF num >= 0 THEN num \div den ELSE -((-num) \div den)

\* ndarray.astype("uint8") of the float num / den.
CastRound(num, den, cast) == Clamp((2 * num + den) \div (2 * den), 0, MaxByte)
CastU8(num, den, cast) ==
  LET t == Trunc(num, den) IN
  IF 0 <= t /\ t <= MaxByte THEN t
  ELSE IF cast = "wrap" THEN t % (MaxByte + 1)
  ELSE IF t < 0 THEN 0 ELSE MaxByte

\* sample * 127.5 * (amount / 800.0) + 127.5, cast to uint8
\* (sample s is in tenths: the float is (s*1275*amount + 1275*10*800) / (100*800)).
NoiseValue(s, amount, cast) ==
  CastU8(s * 1275 * amount + 1275 * 10 * AmountScale, 100 * AmountScale, cast)

\* Number of noise channels drawn per pixel.
NoiseBandsAlways3(node) == 3
NoiseBands(node) == IF node = "monochrome_film_grain" THEN 1 ELSE 3

\* Shape (rows, cols) of the sample array: (image.size[1], image.size[0]).
NoiseShapeSwapped(img) == <<img.w, img.h>>
NoiseShape(img) == <<img.h, img.w>>

\* rng.normal(0, 1, shape) scaled, shifted, cast and wrapped by Image.fromarray:
\* the array is filled in C order starting at the generator's position pos.
NoiseImage(seed, pos, shape, bands, amount, cast) ==
  [mode |-> IF bands = 1 THEN "L" ELSE "RGB",
   w |-> shape[2],
   h |-> shape[1],
   px |-> [i \in 1..(shape[1] * shape[2]) |->
             [c \in 1..bands |->
                NoiseValue(Sample(seed, pos + (i - 1) * bands + (c - 1)), amount, cast)]]]

(* -------------------------------- blur -------------------------------- *)
\* Gaussian radii (in tenths) the model draws from, with the box blur each one
\* becomes: integer box radius r and the 24-bit fixed-point weights ww (inner
\* pixels) and fw (the two far pixels).
BlurRadii == {0, 5, 20}
BoxOf(radius) ==
  IF radius = 5 THEN [r |-> 0, ww |-> 15379114, fw |-> 699051]
  ELSE [r |-> 1, ww |-> 4473924, fw |-> 1677722]

\* (acc * ww + far * fw + 2^23) >> 24, computed in 12-bit halves.
BoxRound(acc, far, box) ==
  LET hi == acc * (box.ww \div 4096) + far * (box.fw \div 4096) + 2048
      lo == acc * (box.ww % 4096) + far * (box.fw % 4096)
  IN (hi + lo \div 4096) \div 4096

RECURSIVE SumLine(_, _, _, _)
\* line[Clamp(from)] + ... + line[Clamp(to)], indices clamped to the line
SumLine(line, from, to, last) ==
  IF from > to THEN 0
  ELSE line[Clamp(from, 0, last) + 1] + SumLine(line, from + 1, to, last)

\* One box blur pass over one line of one band (edge pixels are repeated).
BoxLine(line, box) ==
  LET last == Len(line) - 1 IN
  [i \in 1..Len(line) |->
     BoxRound(SumLine(line, (i - 1) - box.r, (i - 1) + box.r, last),
              line[Clamp((i - 1) - box.r - 1, 0, last) + 1]
                + line[Clamp((i - 1) + box.r + 1, 0, last) + 1],
              box)]

RECURSIVE Passes(_, _, _)
Passes(line, box, n) == IF n = 0 THEN line ELSE Passes(SubSeq(BoxLine(line, box), 1, Len(line)), box, n - 1)

Row(img, y, c) == [x \in 1..img.w |-> PixelAt(img, x - 1, y)[c]]
Col(img, x, c) == [y \in 1..img.h |-> PixelAt(img, x, y - 1)[c]]

HorizontalBlur(img, box) ==
  LET rows == [y \in 0..(img.h - 1) |-> [c \in 1..Bands(img.mode) |-> Passes(Row(img, y, c), box, 3)]]
  IN [img EXCEPT !.px = [i \in 1..(img.w * img.h) |->
        [c \in 1..Bands(img.mode) |-> rows[(i - 1) \div img.w][c][((i - 1) % img.w) + 1]]]]

VerticalBlur(img, box) ==
  LET cols == [x \in 0..(img.w - 1) |-> [c \in 1..Bands(img.mode) |-> Passes(Col(img, x, c), box, 3)]]
  IN [img EXCEPT !.px = [i \in 1..(img.w * img.h) |->
        [c \in 1..Bands(img.mode) |-> cols[(i - 1) % img.w][c][((i - 1) \div img.w) + 1]]]]

\* image.filter(ImageFilter.GaussianBlur(radius)): a copy for radius 0, else
\* three box passes along x and then three along y, band by band.
GaussianBlur(img, radius) ==
  IF radius = 0 THEN img
  ELSE VerticalBlur(HorizontalBlur(img, BoxOf(radius)), BoxOf(radius))

(* ------------------------------- overlay ------------------------------ *)
\* ImageChops.overlay on one band value: base b, blend n.
OverlaySpecFormula(b, n) ==
  IF b < 128 THEN (2 * b * n) \div 255
  ELSE 255 - (2 * (255 - b) * (255 - n)) \div 255
Overlay(b, n) ==
  IF b < 128 THEN (b * n) \div 127
  ELSE 255 - ((255 - n) * (255 - b)) \div 127

\* The chop refuses operands whose band counts differ ("images do not match").
ImagesMatch(a, b) == Bands(a.mode) = Bands(b.mode)

\* ImageChops.overlay(a, b) for matching operands: a's mode, the common size.
ImOverlay(a, b) ==
  LET w == Min(a.w, b.w)
      h == Min(a.h, b.h)
  IN [mode |-> a.mode, w |-> w, h |-> h,
      px |-> [i \in 1..(w * h) |->
                [c \in 1..Bands(a.mode) |->
                   Overlay(PixelAt(a, (i - 1) % w, (i - 1) \div w)[c],
                           PixelAt(b, (i - 1) % w, (i - 1) \div w)[c])]]]

(* ------------------------- host and invocations ----------------------- *)
\* Images the host holds, by name: every size up to the bounds in each mode.
Modes == {"RGB", "RGBA", "L", "YCbCr"}
Names == [mode : Modes, w : 1..MaxWidth, h : 1..MaxHeight]
PixelTable == <<0, 100, 127, 128, 200, 255, 150, 64>>
AlphaTable == <<255, 0, 128>>
StoredImage(name) ==
  [mode |-> name.mode, w |-> name.w, h |-> name.h,
   px |-> [i \in 1..(name.w * name.h) |->
             [c \in 1..Bands(name.mode) |->
                IF name.mode = "RGBA" /\ c = 4
                  THEN AlphaTable[((i + name.h) % Len(AlphaTable)) + 1]
                  ELSE PixelTable[(((i - 1) * 3 + c + name.w) % Len(PixelTable)) + 1]]]]

\* The fields of an invocation (amount_i, seed_i, blur_i as pairs); the
\* amounts and blur radii (in tenths) are drawn together.
Settings ==
  {[amount |-> <<0, 0>>, blur |-> <<0, 0>>],
   [amount |-> <<0, 0>>, blur |-> <<5, 20>>],
   [amount |-> <<100, 50>>, blur |-> <<5, 5>>],
   [amount |-> <<100, 50>>, blur |-> <<0, 0>>],
   [amount |-> <<800, 100>>, blur |-> <<20, 0>>],
   [amount |-> <<0, 800>>, blur |-> <<5, 20>>]}
Invocations ==
  {[node |-> nd, image |-> nm, amount |-> st.amount, seed |-> sd, blur |-> st.blur] :
     nd \in Nodes, nm \in Names, st \in Settings, sd \in OptSeeds \X OptSeeds}
NoInvocation ==
  [node |-> "none", image |-> [mode |-> "none", w |-> 0, h |-> 0],
   amount |-> <<0, 0>>, seed |-> <<None, None>>, blur |-> <<0, 0>>]

\* Invocations that run side by side in ConcSpec.
ConcNames == {[mode |-> "RGBA", w |-> 2, h |-> 1], [mode |-> "RGB", w |-> 1, h |-> 2],
              [mode |-> "L", w |-> 1, h |-> 1]}
ConcInvocations ==
  {inv \in Invocations :
     /\ inv.image \in ConcNames
     /\ inv.amount = <<800, 100>>
     /\ inv.seed \in {<<0, 1>>, <<None, 0>>, <<1, None>>}
     /\ (inv.image.mode = "L" => inv.node = "film_grain" /\ inv.seed = <<0, 1>>)}

(* ----------------------------- control flow --------------------------- *)
\* The statements of invoke in program order.
ProgramInterleaved ==
  <<"get", "strip", "seed1", "gen1", "blur1", "overlay1",
    "seed2", "gen2", "blur2", "overlay2", "restore", "save", "done">>
Program ==
  <<"get", "strip", "seed1", "gen1", "blur1", "seed2", "gen2", "blur2",
    "overlay1", "overlay2", "restore", "save", "done">>
IndexIn(seq, l) == CHOOSE k \in 1..Len(seq) : seq[k] = l
AfterInterleaved(l) == ProgramInterleaved[IndexIn(ProgramInterleaved, l) + 1]
After(l) == Program[IndexIn(Program, l) + 1]

SeedLabel == <<"seed1", "seed2">>
GenLabel == <<"gen1", "gen2">>
BlurLabel == <<"blur1", "blur2">>
OverlayLabel == <<"overlay1", "overlay2">>
RandomLabel == <<"get_random_seed1", "get_random_seed2">>

\* `self.seed_i is not None`
SeedNeverGiven(seed) == FALSE
SeedTruthy(seed) == seed # None /\ seed # 0
SeedGiven(seed) == seed # None

\* The generator object an invocation draws from: one of its own.
GenShared(p) == 1
GenOf(p) == p

\* What an overlay of mismatched operands does to the invocation: it raises.
MismatchIgnored(l) == After(l)
OnMismatch(l) == "error"

VARIABLES
  castMode,  \* the build's out-of-range cast behaviour
  store,     \* the host's images, by name
  self,      \* the fields of each invocation
  pc,        \* each invocation's position in invoke
  image,     \* local: image
  mode,      \* local: mode
  rng,       \* the generators: seed and number of samples drawn
  noise,     \* locals: <<noise_1, noise_2>>
  saved,     \* the images each invocation handed to context.images.save
  log,       \* the statements each invocation executed and its get_random_seed calls
  ov         \* operands and result of one band overlay (OverlaySpec)

vars == <<castMode, store, self, pc, image, mode, rng, noise, saved, log, ov>>

NoOverlay == [b |-> 0, n |-> 0, out |-> None]
Event(op, val) == [op |-> op, val |-> val]

\* The host holds the images the invocations name.
InitialStore == [name \in {self[p].image : p \in Procs} \cap Names |-> StoredImage(name)]

InitLocals ==
  /\ store = InitialStore
  /\ image = [p \in Procs |-> NoImage]
  /\ mode = [p \in Procs |-> "none"]
  /\ rng = [p \in Procs |-> [seed |-> None, pos |-> 0]]
  /\ noise = [p \in Procs |-> <<NoImage, NoImage>>]
  /\ saved = [p \in Procs |-> <<>>]
  /\ log = [p \in Procs |-> <<>>]

\* One invocation, of any node on any stored image.
Init ==
  /\ castMode \in CastModes
  /\ \E inv \in Invocations : self = [p \in Procs |-> IF p = 1 THEN inv ELSE NoInvocation]
  /\ pc = [p \in Procs |-> IF p = 1 THEN "get" ELSE "idle"]
  /\ InitLocals
  /\ ov = NoOverlay

\* Two invocations running concurrently.
ConcInit ==
  /\ castMode \in CastModes
  /\ self \in [Procs -> ConcInvocations]
  /\ pc = [p \in Procs |-> "get"]
  /\ InitLocals
  /\ ov = NoOverlay

Step(p, l) ==
  /\ pc' = [pc EXCEPT ![p] = After(l)]
  /\ log' = [log EXCEPT ![p] = Append(@, Event(l, None))]

\* image = context.images.get_pil(self.image.image_name); mode = image.mode
GetImage(p) ==
  /\ pc[p] = "get"
  /\ image' = [image EXCEPT ![p] = store[self[p].image]]
  /\ mode' = [mode EXCEPT ![p] = store[self[p].image].mode]
  /\ Step(p, "get")
  /\ UNCHANGED <<castMode, store, self, rng, noise, saved, ov>>

\* if mode == "RGBA": image = image.convert("RGB")
StripAlpha(p) ==
  /\ pc[p] = "strip"
  /\ image' = [image EXCEPT ![p] = IF mode[p] = "RGBA" THEN Convert(@, "RGB") ELSE @]
  /\ Step(p, "strip")
  /\ UNCHANGED <<castMode, store, self, mode, rng, noise, saved, ov>>

\* rng = np.random.default_rng(seed=self.seed_i if self.seed_i is not None
\*                                   else get_random_seed())
SeedRng(p, i) ==
  /\ pc[p] = SeedLabel[i]
  /\ IF SeedGiven(self[p].seed[i])
       THEN /\ rng' = [rng EXCEPT ![GenOf(p)] = [seed |-> self[p].seed[i], pos |-> 0]]
            /\ log' = [log EXCEPT ![p] = Append(@, Event(SeedLabel[i], None))]
       ELSE \E r \in Seeds :
            /\ rng' = [rng EXCEPT ![GenOf(p)] = [seed |-> r, pos |-> 0]]
            /\ log' = [log EXCEPT ![p] =
                         Append(Append(@, Event(RandomLabel[i], r)), Event(SeedLabel[i], None))]
  /\ pc' = [pc EXCEPT ![p] = After(SeedLabel[i])]
  /\ UNCHANGED <<castMode, store, self, image, mode, noise, saved, ov>>

\* noise_i = rng.normal(0, 1, shape) * 127.5 * (self.amount_i / 800.0) + 127.5
\* noise_i = Image.fromarray(noise_i.astype("uint8"), "RGB" or "L")
GenNoise(p, i) ==
  /\ pc[p] = GenLabel[i]
  /\ LET g == rng[GenOf(p)]
         shape == NoiseShape(image[p])
         bands == NoiseBands(self[p].node)
     IN /\ noise' = [noise EXCEPT ![p][i] =
                       NoiseImage(g.seed, g.pos, shape, bands, self[p].amount[i], castMode)]
        /\ rng' = [rng EXCEPT ![GenOf(p)].pos = @ + shape[1] * shape[2] * bands]
  /\ Step(p, GenLabel[i])
  /\ UNCHANGED <<castMode, store, self, image, mode, saved, ov>>

\* noise_i = noise_i.filter(ImageFilter.GaussianBlur(radius=self.blur_i))
\* and, in the monochrome node, noise_i = noise_i.convert("RGB")
BlurNoise(p, i) ==
  /\ pc[p] = BlurLabel[i]
  /\ noise' = [noise EXCEPT ![p][i] =
                 IF self[p].node = "monochrome_film_grain"
                   THEN Convert(GaussianBlur(@, self[p].blur[i]), "RGB")
                   ELSE GaussianBlur(@, self[p].blur[i])]
  /\ Step(p, BlurLabel[i])
  /\ UNCHANGED <<castMode, store, self, image, mode, rng, saved, ov>>

\* image = ImageChops.overlay(image, noise_i); mismatched operands raise.
OverlayNoise(p, i) ==
  /\ pc[p] = OverlayLabel[i]
  /\ IF ImagesMatch(image[p], noise[p][i])
       THEN /\ image' = [image EXCEPT ![p] = ImOverlay(@, noise[p][i])]
            /\ pc' = [pc EXCEPT ![p] = After(OverlayLabel[i])]
       ELSE /\ image' = image
            /\ pc' = [pc EXCEPT ![p] = OnMismatch(OverlayLabel[i])]
  /\ log' = [log EXCEPT ![p] = Append(@, Event(OverlayLabel[i], None))]
  /\ UNCHANGED <<castMode, store, self, mode, rng, noise, saved, ov>>

\* if mode == "RGBA": image = image.convert("RGBA")
RestoreAlpha(p) ==
  /\ pc[p] = "restore"
  /\ image' = [image EXCEPT ![p] = IF mode[p] = "RGBA" THEN Convert(@, "RGBA") ELSE @]
  /\ Step(p, "restore")
  /\ UNCHANGED <<castMode, store, self, mode, rng, noise, saved, ov>>

\* image_dto = context.images.save(image=image); return ImageOutput.build(image_dto)
Save(p) ==
  /\ pc[p] = "save"
  /\ saved' = [saved EXCEPT ![p] = Append(@, image[p])]
  /\ Step(p, "save")
  /\ UNCHANGED <<castMode, store, self, image, mode, rng, noise, ov>>

Next ==
  \E p \in Procs :
    \/ GetImage(p)
    \/ StripAlpha(p)
    \/ \E i \in Layers : SeedRng(p, i)
    \/ \E i \in Layers : GenNoise(p, i)
    \/ \E i \in Layers : BlurNoise(p, i)
    \/ \E i \in Layers : OverlayNoise(p, i)
    \/ RestoreAlpha(p)
    \/ Save(p)

Spec == Init /\ [][Next]_vars
ConcSpec == ConcInit /\ [][Next]_vars

(* ----------------------- the band overlay alone ----------------------- *)
OverlayInit ==
  /\ castMode = "wrap"
  /\ self = [p \in Procs |-> NoInvocation]
  /\ pc = [p \in Procs |-> "idle"]
  /\ InitLocals
  /\ \E b \in 0..MaxByte, n \in 0..MaxByte : ov = [b |-> b, n |-> n, out |-> None]

ApplyOverlay ==
  /\ ov.out = None
  /\ ov' = [ov EXCEPT !.out = Overlay(ov.b, ov.n)]
  /\ UNCHANGED <<castMode, store, self, pc, image, mode, rng, noise, saved, log>>

OverlayNext == ApplyOverlay
OverlaySpec == OverlayInit /\ [][OverlayNext]_vars

(* ============================== claims ================================ *)
Input(p) == store[self[p].image]
Stripped(p) == IF Input(p).mode = "RGBA" THEN Convert(Input(p), "RGB") ELSE Input(p)
Has(p, op) == \E k \in 1..Len(log[p]) : log[p][k].op = op
Where(p, op) == CHOOSE k \in 1..Len(log[p]) : log[p][k].op = op
Count(p, op) == Cardinality({k \in 1..Len(log[p]) : log[p][k].op = op})
Uniform(img, v) ==
  [mode |-> "RGB", w |-> img.w, h |-> img.h,
   px |-> [i \in 1..(img.w * img.h) |-> <<v, v, v>>]]
AllValues(img, v) ==
  \A i \in 1..Len(img.px) : \A c \in 1..Len(img.px[i]) : img.px[i][c] = v
\* What one invocation computes from its fields alone (both seeds given).
AloneLayer(inv, base, i, cast) ==
  LET n == GaussianBlur(NoiseImage(inv.seed[i], 0, <<base.h, base.w>>,
                                   IF inv.node = "monochrome_film_grain" THEN 1 ELSE 3,
                                   inv.amount[i], cast), inv.blur[i])
  IN IF inv.node = "monochrome_film_grain" THEN Convert(n, "RGB") ELSE n
Alone(inv, cast) ==
  LET src == StoredImage(inv.image)
      base == IF src.mode = "RGBA" THEN Convert(src, "RGB") ELSE src
      out == ImOverlay(ImOverlay(base, AloneLayer(inv, base, 1, cast)),
                       AloneLayer(inv, base, 2, cast))
  IN IF src.mode = "RGBA" THEN Convert(out, "RGBA") ELSE out

\* C1 (as claimed): for an RGBA input, the alpha of every pixel of the saved
\* image equals the alpha of the same pixel of the input.
C1_AlphaRetained ==
  \A p \in Procs :
    (pc[p] = "done" /\ mode[p] = "RGBA") =>
      \A i \in 1..Len(Input(p).px) : saved[p][1].px[i][4] = Input(p).px[i][4]

\* C2: for an RGB or RGBA input the saved image has the input's width, height
\* and mode, and both noise layers have the input's width and height.
C2_SizeAndMode ==
  \A p \in Procs :
    (pc[p] # "idle" /\ Input(p).mode \in {"RGB", "RGBA"}) =>
      /\ \A i \in Layers :
           noise[p][i] # NoImage =>
             noise[p][i].w = Input(p).w /\ noise[p][i].h = Input(p).h
      /\ pc[p] = "done" =>
           /\ saved[p][1].w = Input(p).w
           /\ saved[p][1].h = Input(p).h
           /\ saved[p][1].mode = Input(p).mode
           /\ Len(saved[p][1].px) = Input(p).w * Input(p).h
C2_Witness ==
  /\ pc[1] = "done"
  /\ Input(1).mode = "RGBA" /\ Input(1).w = 2 /\ Input(1).h = 1
  /\ saved[1][1].mode = "RGBA" /\ saved[1][1].w = 2 /\ saved[1][1].h = 1

\* C3: two invocations of the same node with the same fields, both seeds
\* given, never call get_random_seed and save identical images.
BothSeedsGiven(p) == self[p].seed[1] # None /\ self[p].seed[2] # None
C3_Determinism ==
  \A p \in Procs : \A q \in Procs :
    (self[p] = self[q] /\ BothSeedsGiven(p)) =>
      /\ ~Has(p, "get_random_seed1") /\ ~Has(p, "get_random_seed2")
      /\ (pc[p] = "done" /\ pc[q] = "done") => saved[p] = saved[q]
C3_Witness ==
  /\ self[1] = self[2] /\ BothSeedsGiven(1)
  /\ pc[1] = "done" /\ pc[2] = "done"
  /\ saved[1] = saved[2] /\ Len(saved[1]) = 1
  /\ saved[1][1] # Input(1)

\* C4 (as claimed): with amount_1 = amount_2 = 0 every band of each noise
\* layer is 128 and the output is the input overlaid twice with uniform 128.
C4_MidGray128 ==
  \A p \in Procs :
    (pc[p] # "idle" /\ self[p].amount = <<0, 0>>) =>
      /\ \A i \in Layers : noise[p][i] # NoImage => AllValues(noise[p][i], 128)
      /\ pc[p] = "restore" =>
           image[p] = ImOverlay(ImOverlay(Stripped(p), Uniform(Stripped(p), 128)),
                                Uniform(Stripped(p), 128))

\* C4 (amended): with amount_1 = amount_2 = 0 every band of each noise layer
\* is 127 (127.5 truncated), before and after the blur, whatever the seeds and
\* radii, and the output is the input overlaid twice with uniform 127.
C4_Uniform127 ==
  \A p \in Procs :
    (pc[p] # "idle" /\ self[p].amount = <<0, 0>>) =>
      /\ \A i \in Layers : noise[p][i] # NoImage => AllValues(noise[p][i], 127)
      /\ pc[p] = "restore" =>
           image[p] = ImOverlay(ImOverlay(Stripped(p), Uniform(Stripped(p), 127)),
                                Uniform(Stripped(p), 127))
C4_Witness ==
  /\ self[1].amount = <<0, 0>> /\ self[1].blur = <<5, 20>>
  /\ self[1].seed = <<None, 1>>
  /\ pc[1] = "restore"
  /\ AllValues(noise[1][1], 127) /\ AllValues(noise[1][2], 127)
  /\ image[1] # Stripped(1)

\* C5: in the monochrome node every pixel of a noise layer handed to the
\* overlay has R = G = B, and both layers are three-band when the overlays run.
C5_MonoGray ==
  \A p \in Procs :
    self[p].node = "monochrome_film_grain" =>
      \A i \in Layers :
        /\ noise[p][i].mode = "RGB" =>
             \A k \in 1..Len(noise[p][i].px) :
               /\ noise[p][i].px[k][1] = noise[p][i].px[k][2]
               /\ noise[p][i].px[k][2] = noise[p][i].px[k][3]
        /\ pc[p] \in {"overlay1", "overlay2"} => noise[p][i].mode = "RGB"
\* C5 (colour node): a layer of the colour node whose channels differ.
C5_ColourDiffers ==
  /\ self[1].node = "film_grain"
  /\ pc[1] = "overlay1"
  /\ noise[1][1].px[1][1] # noise[1][1].px[1][2]
C5_Witness ==
  /\ self[1].node = "monochrome_film_grain"
  /\ pc[1] = "overlay1"
  /\ Len(noise[1][1].px) = 2
  /\ noise[1][1].px[1] # noise[1][1].px[2]
  /\ noise[1][1].px[1][1] = noise[1][1].px[1][3]

\* C6 (as claimed): an input whose mode is neither RGB nor RGBA never reaches
\* save, and save comes only after both overlays.
C6_OnlyRgbSaved ==
  \A p \in Procs :
    pc[p] # "idle" =>
      /\ Input(p).mode \notin {"RGB", "RGBA"} => saved[p] = <<>> /\ pc[p] # "done"
      /\ saved[p] # <<>> => Has(p, "overlay1") /\ Has(p, "overlay2")

\* C6 (amended): an input whose band count after the alpha strip is not 3
\* ends in the error raised by the first overlay and never reaches save; save
\* comes only after both overlays have completed.
C6_MismatchRaises ==
  \A p \in Procs :
    pc[p] # "idle" =>
      /\ Bands(Input(p).mode) \notin {3, 4} =>
           /\ saved[p] = <<>>
           /\ pc[p] \notin {"overlay2", "restore", "save", "done"}
           /\ Has(p, "overlay1") => pc[p] = "error"
      /\ Bands(Input(p).mode) \in {3, 4} =>
           /\ pc[p] # "error"
           /\ pc[p] = "done" => saved[p][1].mode = Input(p).mode
      /\ saved[p] # <<>> =>
           /\ Has(p, "overlay1") /\ Has(p, "overlay2")
           /\ saved[p] = <<IF mode[p] = "RGBA"
                             THEN Convert(ImOverlay(ImOverlay(Stripped(p), noise[p][1]), noise[p][2]), "RGBA")
                             ELSE ImOverlay(ImOverlay(Stripped(p), noise[p][1]), noise[p][2])>>
C6_Witness ==
  /\ Input(1).mode = "L"
  /\ pc[1] = "error"
  /\ Has(1, "overlay1") /\ saved[1] = <<>>

\* C7 (as claimed): the band overlay of base b and blend n is 2*b*n/255 for
\* b < 128 and 255 - 2*(255-b)*(255-n)/255 otherwise, within [0, 255].
C7_SpecFormula ==
  ov.out # None =>
    /\ ov.out = IF ov.b < 128 THEN (2 * ov.b * ov.n) \div 255
                ELSE 255 - (2 * (255 - ov.b) * (255 - ov.n)) \div 255
    /\ 0 <= ov.out /\ ov.out <= 255

\* C7 (amended): the band overlay of base b and blend n is b*n/127 for
\* b < 128 and 255 - (255-b)*(255-n)/127 otherwise (truncating), within
\* [0, 255].
C7_OverlayFormula ==
  ov.out # None =>
    /\ ov.b < 128 => ov.out * 127 <= ov.b * ov.n /\ ov.b * ov.n < (ov.out + 1) * 127
    /\ ov.b >= 128 =>
         /\ (255 - ov.out) * 127 <= (255 - ov.b) * (255 - ov.n)
         /\ (255 - ov.b) * (255 - ov.n) < (256 - ov.out) * 127
    /\ 0 <= ov.out /\ ov.out <= 255
C7_Witness == ov.b = 100 /\ ov.n = 127 /\ ov.out = 100

\* C8: under any interleaving, an invocation with both seeds given saves
\* exactly the image it would save alone, and the host's images are unchanged.
C8_Independent ==
  /\ store = InitialStore
  /\ \A p \in Procs :
       (pc[p] = "done" /\ BothSeedsGiven(p)) => saved[p] = <<Alone(self[p], castMode)>>
C8_Witness ==
  /\ pc[1] = "done" /\ BothSeedsGiven(1)
  /\ pc[2] = "blur1" /\ self[2] # self[1]
  /\ Has(1, "seed2") /\ Len(log[2]) = 4
  /\ saved[1] = <<Alone(self[1], castMode)>>

\* C9: get_random_seed is called once for each layer whose seed is absent and
\* never for a given seed (0 included); the generator is seeded with the given
\* seed or the drawn one; layer 1's draw precedes layer 2's.
C9_SeedSelection ==
  \A p \in Procs :
    /\ \A i \in Layers :
         /\ Count(p, RandomLabel[i]) =
              IF self[p].seed[i] = None /\ Has(p, SeedLabel[i]) THEN 1 ELSE 0
         /\ Has(p, RandomLabel[i]) => Where(p, SeedLabel[i]) = Where(p, RandomLabel[i]) + 1
         /\ pc[p] = GenLabel[i] =>
              rng[p].seed = IF self[p].seed[i] # None THEN self[p].seed[i]
                            ELSE log[p][Where(p, RandomLabel[i])].val
    /\ (Has(p, "get_random_seed1") /\ Has(p, "get_random_seed2")) =>
         Where(p, "get_random_seed1") < Where(p, "get_random_seed2")
C9_Witness ==
  /\ self[1].seed = <<0, None>>
  /\ pc[1] = "gen2"
  /\ ~Has(1, "get_random_seed1") /\ Count(1, "get_random_seed2") = 1
  /\ rng[1].seed = 1

\* C10 (as claimed): noise layer 1 is overlaid before noise layer 2 is
\* generated.
C10_OverlayBeforeLayer2 ==
  \A p \in Procs : Has(p, "gen2") => Has(p, "overlay1")

\* C10 (amended): strip first; layer 1 generated and blurred, then layer 2
\* generated and blurred, then overlay 1 and overlay 2, the second on the
\* first's result with noise layer 2 as blend; then the conversion back and a
\* single save.
StepsOf(p) ==
  LET keep == {k \in 1..Len(log[p]) : log[p][k].op \notin {"get_random_seed1", "get_random_seed2"}}
  IN [j \in 1..Cardinality(keep) |->
        log[p][CHOOSE k \in keep : Cardinality({m \in keep : m <= k}) = j].op]
C10_Order ==
  \A p \in Procs :
    /\ StepsOf(p) = SubSeq(<<"get", "strip", "seed1", "gen1", "blur1", "seed2", "gen2",
                             "blur2", "overlay1", "overlay2", "restore", "save">>,
                           1, Len(StepsOf(p)))
    /\ pc[p] = "restore" =>
         image[p] = ImOverlay(ImOverlay(Stripped(p), noise[p][1]), noise[p][2])
    /\ pc[p] = "done" => Len(StepsOf(p)) = 12 /\ Len(saved[p]) = 1
    /\ pc[p] # "done" => saved[p] = <<>>
C10_Witness ==
  /\ pc[1] = "done" /\ mode[1] = "RGBA"
  /\ Len(saved[1]) = 1
  /\ Where(1, "blur2") < Where(1, "overlay1")
  /\ ImOverlay(ImOverlay(Stripped(1), noise[1][1]), noise[1][2])
       # ImOverlay(ImOverlay(Stripped(1), noise[1][2]), noise[1][1])
====
